---- MODULE Spec2Model ----
(***************************************************************************)
(* A model of plex_exporter.py: the rate-limited API client                *)
(* (fetch_plex_api), the endpoint extractors, the orchestrator             *)
(* (collect_plex_metrics), the scheduler thread (run_scheduler) and the    *)
(* main thread (__main__), writing into the Prometheus registry.           *)
(*                                                                         *)
(* Python values: a dict is a record (a function on its keys), a list is a *)
(* sequence, a JSON scalar is its token (a string: "2", "abc"), None is    *)
(* the record None.  Every registry write and every request is one step of *)
(* the thread that executes it, so that a concurrent reader can fall       *)
(* between any two of them.                                                *)
(***************************************************************************)
EXTENDS Integers, Sequences, FiniteSets, TLC

VARIABLES
    MIN_REQUEST_INTERVAL, \* the configured minimum delay between requests (ticks)
    now,                  \* time.monotonic(), in ticks
    last_request_time,    \* the global of the rate limiter
    reg,                  \* the Prometheus registry: every metric of the exporter
    pc,                   \* the position of each thread in the code
    frame,                \* the local variables of each thread
    net,                  \* per thread: what plex_session.get()/raise_for_status()/json() did
    log,                  \* the requests dispatched in the current run: endpoint, the
                          \* limiter's stamp (last_request_time), the result returned
    job_scheduled,        \* schedule.every(...).do(collect_plex_metrics) was registered
    http_up,              \* start_http_server succeeded: scrapes are being served
    observed,             \* the registry as read by the scrape request being served
    prev                  \* when the upstream repeats its answers of the previous run:
                          \* that run's log and the registry it left (else None)

vars == <<MIN_REQUEST_INTERVAL, now, last_request_time, reg, pc, frame, net, log,
          job_scheduled, http_up, observed, prev>>
limiterVars == <<MIN_REQUEST_INTERVAL, now, last_request_time>>
processVars == <<job_scheduled, http_up>>
observerVars == <<observed, prev>>

(***************************************************************************)
(* Bounds of the model.                                                    *)
(***************************************************************************)
MaxRuns == 2      \* runs of collect_plex_metrics in one behaviour
MaxTime == 9      \* the clock stops advancing here
MaxCalls == 3     \* fetch_plex_api calls of the client-only specification

Threads == {"main", "sched"}

(***************************************************************************)
(* Python values.                                                          *)
(***************************************************************************)
None == [none |-> TRUE]
EmptyDict == << >>
Has(d, k) == k \in DOMAIN d
Get(d, k, default) == IF k \in DOMAIN d THEN d[k] ELSE default
IsDict(v) == v # None

\* int(v) for a JSON scalar v given by its token: a decimal numeral converts,
\* anything else raises ValueError or TypeError.
IsDigit(c) == c \in {"0", "1", "2", "3", "4", "5", "6", "7", "8", "9"}
DigitVal(c) ==
    CASE c = "0" -> 0 [] c = "1" -> 1 [] c = "2" -> 2 [] c = "3" -> 3 [] c = "4" -> 4
      [] c = "5" -> 5 [] c = "6" -> 6 [] c = "7" -> 7 [] c = "8" -> 8 [] c = "9" -> 9
AllDigits(s) == Len(s) > 0 /\ \A i \in 1..Len(s) : IsDigit(SubSeq(s, i, i))
RECURSIVE ParseDec(_)
ParseDec(s) ==
    IF Len(s) = 0 THEN 0
    ELSE 10 * ParseDec(SubSeq(s, 1, Len(s) - 1)) + DigitVal(SubSeq(s, Len(s), Len(s)))
IntOk(s) ==
    IF Len(s) > 1 /\ SubSeq(s, 1, 1) = "-" THEN AllDigits(SubSeq(s, 2, Len(s)))
    ELSE AllDigits(s)
IntOf(s) ==
    IF SubSeq(s, 1, 1) = "-" THEN 0 - ParseDec(SubSeq(s, 2, Len(s))) ELSE ParseDec(s)
\* json.loads reads the tokens Infinity and -Infinity as floats, and int() of them
\* raises OverflowError, which is neither ValueError nor TypeError.
IntOverflows(s) == s \in {"Infinity", "-Infinity"}

(***************************************************************************)
(* The upstream API: the endpoints and the bodies the server may answer.   *)
(***************************************************************************)
EpIdentity == "/identity"
EpSessions == "/status/sessions"
EpLibraries == "/library/sections"
EpDevices == "/devices"
EpActivities == "/activities"
EpUpdater == "/updater/status"
EpSection(key) ==
    "/library/sections/" \o key \o "/all?X-Plex-Container-Start=0&X-Plex-Container-Size=0"

SectionKeys == {"1", "2"}
Endpoints ==
    {EpIdentity, EpSessions, EpLibraries, EpDevices, EpActivities, EpUpdater}
        \cup {EpSection(k) : k \in SectionKeys}

Container(mc) == [MediaContainer |-> mc]

IdentityBodies ==
    { EmptyDict,
      Container([machineIdentifier |-> "srv", version |-> "1.40"]),
      Container(None) }

PlayerA == [title |-> "tv", product |-> "Plex Web", state |-> "playing",
            address |-> "10.0.0.2", local |-> TRUE, secure |-> TRUE]
PlayerB == [title |-> "phone", state |-> "paused"]
SessionA == [sessionKey |-> "7", type |-> "movie", title |-> "Heat", year |-> "1995",
             duration |-> "1000", viewOffset |-> "250",
             User |-> [title |-> "ann"], Player |-> PlayerA]
SessionB == [sessionKey |-> "8", type |-> "episode", title |-> "Bar",
             grandparentTitle |-> "Foo", parentIndex |-> "1", index |-> "3",
             duration |-> "abc", viewOffset |-> "10", Player |-> PlayerB,
             TranscodeSession |-> [videoDecision |-> "transcode", audioDecision |-> "copy",
                                   speed |-> "2", throttled |-> TRUE]]
SessionsBodies ==
    { EmptyDict,
      Container([size |-> "3", Metadata |-> <<SessionA, SessionB>>]),
      Container([size |-> "many", Metadata |-> <<SessionA>>]) }

SectionMovies == [key |-> "1", title |-> "Movies", type |-> "movie"]
SectionShows == [key |-> "2", title |-> "Shows", type |-> "show"]
SectionNoKey == [title |-> "Orphan", type |-> "artist"]
LibrariesBodies ==
    { EmptyDict,
      Container([size |-> "3", Directory |-> <<SectionNoKey, SectionMovies, SectionShows>>]),
      Container([size |-> "n/a", Directory |-> <<SectionMovies>>]) }
SectionBodies ==
    { EmptyDict,
      Container([totalSize |-> "2", size |-> "0"]),
      Container([totalSize |-> "lots"]) }

DevicesBodies ==
    { EmptyDict,
      Container([Device |-> <<[clientIdentifier |-> "srv"], [clientIdentifier |-> "phone"]>>]),
      Container(None) }

ActivitiesBodies ==
    { EmptyDict,
      Container([size |-> "1"]),
      Container([size |-> "busy"]) }

UpdaterBodies ==
    { EmptyDict,
      Container([status |-> "1", version |-> "1.40", Release |-> <<[version |-> "1.41"]>>]),
      Container([status |-> "1", version |-> "1.40", Release |-> << >>]) }

Bodies(ep) ==
    CASE ep = EpIdentity -> IdentityBodies
      [] ep = EpSessions -> SessionsBodies
      [] ep = EpLibraries -> LibrariesBodies
      [] ep = EpDevices -> DevicesBodies
      [] ep = EpActivities -> ActivitiesBodies
      [] ep = EpUpdater -> UpdaterBodies
      [] OTHER -> SectionBodies

\* What the three calls of the try block (get, raise_for_status, json) can do.
FailureKinds == {"timeout", "connection", "ssl", "http_status", "json_decode", "other"}
NoRequest == [kind |-> "none", body |-> None]
Outcomes(ep) ==
    [kind : FailureKinds, body : {None}]
        \cup [kind : {"empty_200", "non_json_200"}, body : {None}]
        \cup [kind : {"json_200"}, body : Bodies(ep)]

\* A variant of FetchResult that takes an empty 200 for a failure.
FetchResultEmptyIsFailure(o) ==
    CASE o.kind = "json_200" -> [val |-> o.body, errors |-> 0]
      [] o.kind = "non_json_200" -> [val |-> EmptyDict, errors |-> 0]
      [] OTHER -> [val |-> None, errors |-> 1]

\* A variant of FetchResult that returns None for a body that is no JSON without
\* counting the failure.
FetchResultDecodeUncounted(o) ==
    CASE o.kind = "json_200" -> [val |-> o.body, errors |-> 0]
      [] o.kind = "empty_200" -> [val |-> EmptyDict, errors |-> 0]
      [] o.kind = "non_json_200" -> [val |-> EmptyDict, errors |-> 0]
      [] o.kind = "json_decode" -> [val |-> None, errors |-> 0]
      [] OTHER -> [val |-> None, errors |-> 1]

\* Lines 150-186: what fetch_plex_api returns for each outcome of the request,
\* and by how much it increments plex_exporter_scrape_errors_total.
FetchResult(o) ==
    CASE o.kind = "json_200" -> [val |-> o.body, errors |-> 0]
      [] o.kind = "empty_200" -> [val |-> EmptyDict, errors |-> 0]
      [] o.kind = "non_json_200" -> [val |-> EmptyDict, errors |-> 0]
      [] OTHER -> [val |-> None, errors |-> 1]

(***************************************************************************)
(* The registry.  A labelled family is the set of its series, each the     *)
(* record of its labels and its value.                                     *)
(***************************************************************************)
EmptyRegistry ==
    [ plex_exporter_scrapes_total |-> 0,
      plex_exporter_scrape_errors_total |-> 0,
      plex_server_info |-> EmptyDict,
      plex_server_up |-> 0,
      plex_updater_available |-> {},
      plex_devices_connected_count |-> 0,
      plex_activities_active_count |-> 0,
      plex_sessions_active |-> 0,
      plex_session_details |-> {},
      plex_transcode_sessions_active |-> 0,
      plex_transcode_session_details |-> {},
      plex_library_sections_count |-> 0,
      plex_library_items_count |-> {} ]

\* family.labels(**labels).set(value): the series of these labels is created or
\* overwritten.
Labels(series) == [k \in DOMAIN series \ {"value"} |-> series[k]]
Series(labels, value) ==
    [k \in DOMAIN labels \cup {"value"} |-> IF k = "value" THEN value ELSE labels[k]]
SetSeries(family, labels, value) ==
    {s \in family : Labels(s) # labels} \cup {Series(labels, value)}

SetMetric(name, value) == reg' = [reg EXCEPT ![name] = value]
IncMetric(name) == reg' = [reg EXCEPT ![name] = @ + 1]

(***************************************************************************)
(* Threads: positions and local variables.                                 *)
(***************************************************************************)
EmptyFrame ==
    [ ep |-> "", ret |-> "", data |-> None, server_info |-> EmptyDict,
      dir |-> << >>, i |-> 0, n |-> 0, m |-> 0, labels |-> EmptyDict,
      current_time |-> 0 ]

\* Where collect_plex_metrics returns to: line 562 on the main thread, the
\* scheduler's loop (line 546) on the scheduler thread.
ReturnSite(t) == IF t = "main" THEN "m_schedule" ELSE "s_sleep"
\* Where an exception that leaves collect_plex_metrics ends: nothing catches it,
\* neither in __main__ nor in schedule.run_pending nor in run_scheduler.
UncaughtSite(t) == IF t = "main" THEN "crashed" ELSE "dead"

FetchPcs == {"f_enter", "f_clock", "f_sleep", "f_stamp", "f_get", "f_handle"}
IdlePcs == {"s_off", "s_loop", "s_sleep", "dead",
            "m_schedule", "m_http", "m_thread", "m_sleep", "exited", "crashed", "caller"}
InRun(t) == pc[t] \notin IdlePcs

Goto(t, label) == pc' = [pc EXCEPT ![t] = label]
\* A call of fetch_plex_api(ep) whose result is used at `ret`.
CallFetch(t, ep, ret, fr) ==
    /\ pc' = [pc EXCEPT ![t] = "f_enter"]
    /\ frame' = [frame EXCEPT ![t] = [fr EXCEPT !.ep = ep, !.ret = ret]]

\* A variant of Init: the job is registered and the scheduler thread started
\* before the initial collection.
InitThreadFirst ==
    /\ MIN_REQUEST_INTERVAL = 0
    /\ now = 0
    /\ last_request_time = 0
    /\ reg = EmptyRegistry
    /\ pc = [t \in Threads |-> IF t = "main" THEN "c_start" ELSE "s_loop"]
    /\ frame = [t \in Threads |-> EmptyFrame]
    /\ net = [t \in Threads |-> NoRequest]
    /\ log = << >>
    /\ job_scheduled = TRUE
    /\ http_up = FALSE
    /\ observed = None
    /\ prev = None

Init ==
    /\ MIN_REQUEST_INTERVAL = 0
    /\ now = 0
    /\ last_request_time = 0
    /\ reg = EmptyRegistry
    /\ pc = [t \in Threads |-> IF t = "main" THEN "c_start" ELSE "s_off"]
    /\ frame = [t \in Threads |-> EmptyFrame]
    /\ net = [t \in Threads |-> NoRequest]
    /\ log = << >>
    /\ job_scheduled = FALSE
    /\ http_up = FALSE
    /\ observed = None
    /\ prev = None

(***************************************************************************)
(* fetch_plex_api (lines 114-186).                                         *)
(***************************************************************************)
\* Line 134: the limiter is skipped when MIN_REQUEST_INTERVAL is 0.
fetch_enter(t) ==
    /\ pc[t] = "f_enter"
    /\ Goto(t, IF MIN_REQUEST_INTERVAL > 0 THEN "f_clock" ELSE "f_get")
    /\ UNCHANGED <<limiterVars, reg, frame, net, log, processVars, observerVars>>

\* Lines 135-137: read the clock, decide whether to sleep.
rate_clock(t) ==
    /\ pc[t] = "f_clock"
    /\ frame' = [frame EXCEPT ![t].current_time = now]
    /\ Goto(t, IF now - last_request_time < MIN_REQUEST_INTERVAL THEN "f_sleep" ELSE "f_stamp")
    /\ UNCHANGED <<limiterVars, reg, net, log, processVars, observerVars>>

\* A variant of SleepTime: the time elapsed instead of the time remaining.
SleepTimeElapsed(t) == frame[t].current_time - last_request_time

\* Lines 138-140: time.sleep(sleep_time) returns once at least sleep_time has
\* passed since the clock was read.
SleepTime(t) == MIN_REQUEST_INTERVAL - (frame[t].current_time - last_request_time)
rate_sleep(t) ==
    /\ pc[t] = "f_sleep"
    /\ now >= frame[t].current_time + SleepTime(t)
    /\ Goto(t, "f_stamp")
    /\ UNCHANGED <<limiterVars, reg, frame, net, log, processVars, observerVars>>

\* A variant of rate_stamp that records the clock value read before the wait.
rate_stamp_before_wait(t) ==
    /\ pc[t] = "f_stamp"
    /\ last_request_time' = frame[t].current_time
    /\ Goto(t, "f_get")
    /\ UNCHANGED <<MIN_REQUEST_INTERVAL, now, reg, frame, net, log, processVars, observerVars>>

\* Line 142: the request start is recorded after the wait.
rate_stamp(t) ==
    /\ pc[t] = "f_stamp"
    /\ last_request_time' = now
    /\ Goto(t, "f_get")
    /\ UNCHANGED <<MIN_REQUEST_INTERVAL, now, reg, frame, net, log, processVars, observerVars>>

\* Lines 148-160: the request is dispatched and the server, or the network,
\* answers it in one of the ways of Outcomes.
fetch_get(t) ==
    /\ pc[t] = "f_get"
    /\ \E o \in Outcomes(frame[t].ep) : net' = [net EXCEPT ![t] = o]
    /\ log' = Append(log, [ep |-> frame[t].ep, stamp |-> last_request_time,
                            res |-> None, done |-> FALSE])
    /\ Goto(t, "f_handle")
    /\ UNCHANGED <<limiterVars, reg, frame, processVars>>

\* Lines 150-186: the result is returned, a failure is counted.
fetch_handle(t) ==
    /\ pc[t] = "f_handle"
    /\ LET r == FetchResult(net[t]) IN
        /\ reg' = [reg EXCEPT !.plex_exporter_scrape_errors_total = @ + r.errors]
        /\ frame' = [frame EXCEPT ![t].data = r.val]
        /\ log' = [log EXCEPT ![Len(log)].res = r.val, ![Len(log)].done = TRUE]
    /\ net' = [net EXCEPT ![t] = NoRequest]
    /\ Goto(t, frame[t].ret)
    /\ UNCHANGED <<limiterVars, processVars, observerVars>>

(***************************************************************************)
(* get_media_title (lines 189-227).                                        *)
(***************************************************************************)
\* A variant of Zfill2 that leaves the string as it is.
Zfill2Unpadded(s) == s

\* str.zfill(2)
Zfill2(s) ==
    IF Len(s) >= 2 THEN s
    ELSE IF Len(s) = 0 THEN "00"
    ELSE IF s \in {"+", "-"} THEN s \o "0"
    ELSE "0" \o s

get_media_title(session_metadata) ==
    LET media_type == Get(session_metadata, "type", "unknown")
        title == Get(session_metadata, "title", "")
    IN  CASE media_type = "episode" ->
               Get(session_metadata, "grandparentTitle", "") \o " - S"
                   \o Zfill2(Get(session_metadata, "parentIndex", "?")) \o "E"
                   \o Zfill2(Get(session_metadata, "index", "?")) \o " - " \o title
          [] media_type = "movie" ->
               LET year == Get(session_metadata, "year", "")
               IN  \* `if year`: an empty string and the number 0 are false
                   IF year \notin {"", "0"} THEN title \o " (" \o year \o ")" ELSE title
          [] media_type = "track" ->
               Get(session_metadata, "grandparentTitle", "") \o " - "
                   \o Get(session_metadata, "parentTitle", "") \o " - " \o title
          [] OTHER -> title

(***************************************************************************)
(* _update_session_metrics: the labels of one session (lines 290-355).     *)
(***************************************************************************)
\* round(x, 2) of the quotient num / den (den > 0), in hundredths: to the nearest,
\* a tie to the even one.
RoundHundredths(num, den) ==
    LET scaled == num * 100
        f == scaled \div den
        r == scaled % den
    IN  IF 2 * r > den THEN f + 1
        ELSE IF 2 * r < den THEN f
        ELSE IF f % 2 = 0 THEN f ELSE f + 1

\* Lines 303-317: duration_num, view_offset_num and progress_percent (in hundredths
\* of a percent).  The two int() calls are in one try block: when the first raises,
\* the second is not evaluated.
Progress(session) ==
    LET duration_ms == Get(session, "duration", "0")
        view_offset_ms == Get(session, "viewOffset", "0")
    IN  IF ~IntOk(duration_ms)
        THEN [duration_num |-> 0, view_offset_num |-> 0, progress_percent |-> 0]
        ELSE IF ~IntOk(view_offset_ms)
        THEN [duration_num |-> IntOf(duration_ms), view_offset_num |-> 0,
              progress_percent |-> 0]
        ELSE [duration_num |-> IntOf(duration_ms),
              view_offset_num |-> IntOf(view_offset_ms),
              progress_percent |->
                  IF IntOf(duration_ms) > 0
                  THEN RoundHundredths(IntOf(view_offset_ms) * 100, IntOf(duration_ms))
                  ELSE 0]

\* Lines 310-315: `except (ValueError, TypeError)` lets an OverflowError of the two
\* int() calls pass; the second call is reached only when the first returned.
ProgressRaises(session) ==
    LET duration_ms == Get(session, "duration", "0")
        view_offset_ms == Get(session, "viewOffset", "0")
    IN  \/ IntOverflows(duration_ms)
        \/ IntOk(duration_ms) /\ IntOverflows(view_offset_ms)

SessionLabels(session) ==
    LET player_info == Get(session, "Player", EmptyDict)
        p == Progress(session)
    IN  [ session_key |-> Get(session, "sessionKey", "unknown"),
          user |-> Get(Get(session, "User", EmptyDict), "title", "Unknown"),
          player |-> Get(player_info, "title", "Unknown"),
          product |-> Get(player_info, "product", "Unknown"),
          state |-> Get(player_info, "state", "unknown"),
          type |-> Get(session, "type", "unknown"),
          address |-> Get(player_info, "address", "unknown"),
          location |-> IF Get(player_info, "local", FALSE) THEN "local" ELSE "remote",
          secure |-> IF Get(player_info, "secure", FALSE) THEN "yes" ELSE "no",
          media_title |-> get_media_title(session),
          progress_percent |-> p.progress_percent,
          duration_ms |-> p.duration_num,
          view_offset_ms |-> p.view_offset_num ]

\* A variant of TranscodeDecision that keeps the initial value of line 340 when no
\* decision is a transcode.
TranscodeDecisionInitial(video_decision, audio_decision) ==
    IF video_decision = "copy" /\ audio_decision = "copy" THEN "Direct Stream"
    ELSE IF video_decision = "transcode" \/ audio_decision = "transcode" THEN "Transcode"
    ELSE "Direct Play"

\* Lines 340-347.
TranscodeDecision(video_decision, audio_decision) ==
    IF video_decision = "copy" /\ audio_decision = "copy" THEN "Direct Stream"
    ELSE IF video_decision = "transcode" \/ audio_decision = "transcode" THEN "Transcode"
    ELSE "Unknown"

\* Line 330: `if transcode_session`: the key is there and its dict is not empty.
HasTranscode(session) ==
    Has(session, "TranscodeSession") /\ session.TranscodeSession # EmptyDict

TranscodeLabels(session) ==
    LET player_info == Get(session, "Player", EmptyDict)
        ts == session.TranscodeSession
        video_decision == Get(ts, "videoDecision", "unknown")
        audio_decision == Get(ts, "audioDecision", "unknown")
    IN  [ session_key |-> Get(session, "sessionKey", "unknown"),
          user |-> Get(Get(session, "User", EmptyDict), "title", "Unknown"),
          player |-> Get(player_info, "title", "Unknown"),
          product |-> Get(player_info, "product", "Unknown"),
          transcode_decision |-> TranscodeDecision(video_decision, audio_decision),
          video_decision |-> video_decision,
          audio_decision |-> audio_decision,
          subtitle_decision |-> Get(ts, "subtitleDecision", "N/A"),
          speed |-> Get(ts, "speed", "-1.0"),
          progress |-> Get(ts, "progress", "-1.0"),
          throttled |-> IF Get(ts, "throttled", FALSE) THEN "yes" ELSE "no" ]

(***************************************************************************)
(* collect_plex_metrics (lines 490-533) and the extractors it calls.  A    *)
(* step is one registry write, with the local computation that follows it  *)
(* up to the next write or request.                                        *)
(***************************************************************************)
\* An exception raised by a secondary extractor: caught at line 528.
Raise(t) == Goto(t, "except")
\* collect_plex_metrics returns (lines 518, 533): its locals are gone.
Return(t) ==
    /\ pc' = [pc EXCEPT ![t] = ReturnSite(t)]
    /\ frame' = [frame EXCEPT ![t] = EmptyFrame]
\* A response a secondary extractor can read: `x is not None and 'MediaContainer' in x`.
HasContainer(data) == data # None /\ Has(data, "MediaContainer")

\* A variant of collect_start that does not count the scrape.
collect_start_uncounted(t) ==
    /\ pc[t] = "c_start"
    /\ log' = << >>
    /\ CallFetch(t, EpIdentity, "id_up", EmptyFrame)
    /\ UNCHANGED <<limiterVars, reg, net, processVars>>

\* Lines 499-503, 239: the scrape is counted, /identity is requested.
collect_start(t) ==
    /\ pc[t] = "c_start"
    /\ IncMetric("plex_exporter_scrapes_total")
    /\ log' = << >>
    /\ CallFetch(t, EpIdentity, "id_up", EmptyFrame)
    /\ UNCHANGED <<limiterVars, net, processVars>>

\* _update_server_status, lines 240-243 and 257-262: plex_server_up is set.
IdentityOk(identity_data) == identity_data # None /\ Has(identity_data, "MediaContainer")
\* A variant of update_server_up in which DOWN is latched: after a run that found
\* the server DOWN, a valid identity is not looked at.
update_server_up_latched(t) ==
    /\ pc[t] = "id_up"
    /\ IF IdentityOk(frame[t].data)
          /\ ~(reg.plex_exporter_scrapes_total > 1 /\ reg.plex_server_up = 0)
       THEN SetMetric("plex_server_up", 1) /\ Goto(t, "id_info")
       ELSE SetMetric("plex_server_up", 0) /\ Goto(t, "id_no_info")
    /\ UNCHANGED <<limiterVars, frame, net, log, processVars, observerVars>>

update_server_up(t) ==
    /\ pc[t] = "id_up"
    /\ IF IdentityOk(frame[t].data)
       THEN SetMetric("plex_server_up", 1) /\ Goto(t, "id_info")
       ELSE SetMetric("plex_server_up", 0) /\ Goto(t, "id_no_info")
    /\ UNCHANGED <<limiterVars, frame, net, log, processVars, observerVars>>

\* Lines 245-256: mc.get raises AttributeError when MediaContainer is no dict, and
\* nothing catches it; otherwise the info metric is set and the sessions are
\* requested (lines 506, 522, 273).
ServerInfoDict(mc) ==
    [ version |-> Get(mc, "version", "unknown"),
      platform |-> Get(mc, "platform", "unknown"),
      platform_version |-> Get(mc, "platformVersion", "unknown"),
      friendly_name |-> Get(mc, "friendlyName", "unknown"),
      machine_identifier |-> Get(mc, "machineIdentifier", "unknown") ]
update_server_info(t) ==
    /\ pc[t] = "id_info"
    /\ LET mc == frame[t].data.MediaContainer IN
        IF IsDict(mc)
        THEN /\ SetMetric("plex_server_info", ServerInfoDict(mc))
             /\ CallFetch(t, EpSessions, "sess_clear1",
                          [frame[t] EXCEPT !.server_info = ServerInfoDict(mc)])
        ELSE /\ Goto(t, UncaughtSite(t))
             /\ frame' = [frame EXCEPT ![t] = EmptyFrame]
             /\ UNCHANGED reg
    /\ UNCHANGED <<limiterVars, net, log, processVars, observerVars>>

\* A variant of clear_server_info that leaves the info metric as it was.
keep_server_info(t) ==
    /\ pc[t] = "id_no_info"
    /\ pc' = [pc EXCEPT ![t] = "down"]
    /\ frame' = [frame EXCEPT ![t].i = 1]
    /\ UNCHANGED <<limiterVars, reg, net, log, processVars, observerVars>>

\* Line 263: the stale info is cleared.
clear_server_info(t) ==
    /\ pc[t] = "id_no_info"
    /\ SetMetric("plex_server_info", EmptyDict)
    /\ pc' = [pc EXCEPT ![t] = "down"]
    /\ frame' = [frame EXCEPT ![t].i = 1]
    /\ UNCHANGED <<limiterVars, net, log, processVars, observerVars>>

\* Lines 509-518: the nine resets of the DOWN branch, in the order of the code.
DownResets ==
    << [name |-> "plex_sessions_active", value |-> 0],
       [name |-> "plex_transcode_sessions_active", value |-> 0],
       [name |-> "plex_library_sections_count", value |-> 0],
       [name |-> "plex_library_items_count", value |-> {}],
       [name |-> "plex_devices_connected_count", value |-> 0],
       [name |-> "plex_activities_active_count", value |-> 0],
       [name |-> "plex_updater_available", value |-> {}],
       [name |-> "plex_session_details", value |-> {}],
       [name |-> "plex_transcode_session_details", value |-> {}] >>
\* A variant of DownReset that misses line 512 (the library items).
DownResetWithoutLibraryItems(k) == IF k = 4 THEN DownResets[3] ELSE DownResets[k]
DownReset(k) == DownResets[k]
collect_down(t) ==
    /\ pc[t] = "down"
    /\ SetMetric(DownReset(frame[t].i).name, DownReset(frame[t].i).value)
    /\ IF frame[t].i < Len(DownResets)
       THEN frame' = [frame EXCEPT ![t].i = @ + 1] /\ UNCHANGED pc
       ELSE Return(t)
    /\ UNCHANGED <<limiterVars, net, log, processVars, observerVars>>

(***************************************************************************)
(* _update_session_metrics (lines 266-367).                                *)
(***************************************************************************)
\* Line 278.
session_clear_details(t) ==
    /\ pc[t] = "sess_clear1"
    /\ SetMetric("plex_session_details", {})
    /\ Goto(t, "sess_clear2")
    /\ UNCHANGED <<limiterVars, frame, net, log, processVars, observerVars>>

\* Lines 279-288: the second family is cleared, then the size is read (int()
\* raises on a token that is no number) and the loop is entered.
session_clear_transcode(t) ==
    /\ pc[t] = "sess_clear2"
    /\ SetMetric("plex_transcode_session_details", {})
    /\ LET data == frame[t].data IN
        IF HasContainer(data)
        THEN LET container == data.MediaContainer
                 size == Get(container, "size", "0")
                 metadata == Get(container, "Metadata", << >>)
             IN  IF ~IsDict(container) \/ ~IntOk(size)
                 THEN Raise(t) /\ UNCHANGED frame
                 ELSE /\ frame' = [frame EXCEPT ![t].n = IntOf(size), ![t].m = 0,
                                                ![t].dir = metadata, ![t].i = 1]
                      /\ Goto(t, IF Len(metadata) > 0 THEN "sess_item" ELSE "sess_set1")
        ELSE /\ frame' = [frame EXCEPT ![t].n = 0, ![t].m = 0]
             /\ Goto(t, "sess_set1")
    /\ UNCHANGED <<limiterVars, net, log, processVars, observerVars>>

\* Lines 288-330: the series of session i is written.
SessionLoopNext(t, fr) ==
    IF fr.i < Len(fr.dir)
    THEN /\ frame' = [frame EXCEPT ![t] = [fr EXCEPT !.i = @ + 1]]
         /\ Goto(t, "sess_item")
    ELSE /\ frame' = [frame EXCEPT ![t] = fr]
         /\ Goto(t, "sess_set1")
session_item(t) ==
    /\ pc[t] = "sess_item"
    /\ LET session == frame[t].dir[frame[t].i] IN
        IF ProgressRaises(session)
        THEN Raise(t) /\ UNCHANGED <<reg, frame>>
        ELSE /\ SetMetric("plex_session_details",
                          SetSeries(reg.plex_session_details, SessionLabels(session), 1))
             /\ IF HasTranscode(session)
                THEN Goto(t, "sess_tc") /\ UNCHANGED frame
                ELSE SessionLoopNext(t, frame[t])
    /\ UNCHANGED <<limiterVars, net, log, processVars, observerVars>>

\* Lines 331-355: the transcode series of session i is written.
session_transcode(t) ==
    /\ pc[t] = "sess_tc"
    /\ LET session == frame[t].dir[frame[t].i] IN
        SetMetric("plex_transcode_session_details",
                  SetSeries(reg.plex_transcode_session_details, TranscodeLabels(session), 1))
    /\ SessionLoopNext(t, [frame[t] EXCEPT !.m = @ + 1])
    /\ UNCHANGED <<limiterVars, net, log, processVars, observerVars>>

\* A variant of session_set_active: the gauge is incremented by the count, not set.
session_add_active(t) ==
    /\ pc[t] = "sess_set1"
    /\ SetMetric("plex_sessions_active", reg.plex_sessions_active + frame[t].n)
    /\ Goto(t, "sess_set2")
    /\ UNCHANGED <<limiterVars, frame, net, log, processVars, observerVars>>

\* Line 365.
session_set_active(t) ==
    /\ pc[t] = "sess_set1"
    /\ SetMetric("plex_sessions_active", frame[t].n)
    /\ Goto(t, "sess_set2")
    /\ UNCHANGED <<limiterVars, frame, net, log, processVars, observerVars>>

\* A variant of session_set_transcode: the devices extractor is called before the
\* library extractor.
session_set_transcode_then_devices(t) ==
    /\ pc[t] = "sess_set2"
    /\ SetMetric("plex_transcode_sessions_active", frame[t].m)
    /\ CallFetch(t, EpDevices, "dev_set", frame[t])
    /\ UNCHANGED <<limiterVars, net, log, processVars, observerVars>>

\* Lines 366, 523, 375.
session_set_transcode(t) ==
    /\ pc[t] = "sess_set2"
    /\ SetMetric("plex_transcode_sessions_active", frame[t].m)
    /\ CallFetch(t, EpLibraries, "lib_clear", frame[t])
    /\ UNCHANGED <<limiterVars, net, log, processVars, observerVars>>

(***************************************************************************)
(* _update_library_metrics (lines 369-413).                                *)
(***************************************************************************)
\* Line 391: `if section_key`.
HasKey(section) == Has(section, "key") /\ section.key # ""
\* A variant of NextKeyed that passes over the section right after index i.
NextKeyedSkippingOne(dir, i) ==
    LET js == {j \in (i + 2)..Len(dir) : HasKey(dir[j])}
    IN  IF js = {} THEN 0 ELSE CHOOSE j \in js : \A k \in js : j <= k

\* The next section after index i that has a key (0: none): the others are only
\* logged (line 405).
NextKeyed(dir, i) ==
    LET js == {j \in (i + 1)..Len(dir) : HasKey(dir[j])}
    IN  IF js = {} THEN 0 ELSE CHOOSE j \in js : \A k \in js : j <= k
LibraryLoopNext(t, fr) ==
    LET j == NextKeyed(fr.dir, fr.i) IN
        IF j = 0
        THEN /\ frame' = [frame EXCEPT ![t] = fr]
             /\ Goto(t, "lib_set")
        ELSE CallFetch(t, EpSection(fr.dir[j].key), "lib_item", [fr EXCEPT !.i = j])

\* Lines 379-394.
library_clear(t) ==
    /\ pc[t] = "lib_clear"
    /\ SetMetric("plex_library_items_count", {})
    /\ LET data == frame[t].data IN
        IF HasContainer(data)
        THEN LET container == data.MediaContainer
                 size == Get(container, "size", "0")
             IN  IF ~IsDict(container) \/ ~IntOk(size)
                 THEN Raise(t) /\ UNCHANGED frame
                 ELSE LibraryLoopNext(t, [frame[t] EXCEPT
                          !.n = IntOf(size), !.i = 0,
                          !.dir = Get(container, "Directory", << >>)])
        ELSE /\ frame' = [frame EXCEPT ![t].n = 0]
             /\ Goto(t, "lib_set")
    /\ UNCHANGED <<limiterVars, net, log, processVars, observerVars>>

\* Lines 395-402: the item count of section i, when its details came.
ItemCountToken(mc) == Get(mc, "totalSize", Get(mc, "size", "0"))
\* A variant of library_item that publishes 0 for a section whose details did not come.
library_item_zero_on_failure(t) ==
    /\ pc[t] = "lib_item"
    /\ LET section_details == frame[t].data
           section == frame[t].dir[frame[t].i]
           labels == [section_title |-> Get(section, "title", "Unknown"),
                      section_type |-> Get(section, "type", "Unknown")]
       IN  IF HasContainer(section_details)
           THEN LET mc == section_details.MediaContainer IN
                    IF ~IsDict(mc) \/ ~IntOk(ItemCountToken(mc))
                    THEN Raise(t) /\ UNCHANGED <<reg, frame>>
                    ELSE /\ SetMetric("plex_library_items_count",
                               SetSeries(reg.plex_library_items_count, labels,
                                         IntOf(ItemCountToken(mc))))
                         /\ LibraryLoopNext(t, frame[t])
           ELSE /\ SetMetric("plex_library_items_count",
                        SetSeries(reg.plex_library_items_count, labels, 0))
                /\ LibraryLoopNext(t, frame[t])
    /\ UNCHANGED <<limiterVars, net, log, processVars, observerVars>>

library_item(t) ==
    /\ pc[t] = "lib_item"
    /\ LET section_details == frame[t].data
           section == frame[t].dir[frame[t].i]
       IN  IF HasContainer(section_details)
           THEN LET mc == section_details.MediaContainer IN
                    IF ~IsDict(mc) \/ ~IntOk(ItemCountToken(mc))
                    THEN Raise(t) /\ UNCHANGED <<reg, frame>>
                    ELSE /\ SetMetric("plex_library_items_count",
                               SetSeries(reg.plex_library_items_count,
                                   [section_title |-> Get(section, "title", "Unknown"),
                                    section_type |-> Get(section, "type", "Unknown")],
                                   IntOf(ItemCountToken(mc))))
                         /\ LibraryLoopNext(t, frame[t])
           ELSE LibraryLoopNext(t, frame[t]) /\ UNCHANGED reg
    /\ UNCHANGED <<limiterVars, net, log, processVars, observerVars>>

\* Lines 412, 524, 425.
library_set_count(t) ==
    /\ pc[t] = "lib_set"
    /\ SetMetric("plex_library_sections_count", frame[t].n)
    /\ CallFetch(t, EpDevices, "dev_set", frame[t])
    /\ UNCHANGED <<limiterVars, net, log, processVars, observerVars>>

(***************************************************************************)
(* _update_device_metrics (lines 415-442).                                 *)
(***************************************************************************)
\* Lines 429-435.  `not server_id` holds for None and for the empty string; a
\* device without clientIdentifier has None, which differs from every server_id.
DeviceCount(mc, server_info_dict) ==
    LET server_id == IF server_info_dict # EmptyDict
                     THEN Get(server_info_dict, "machine_identifier", "") ELSE ""
        devices == Get(mc, "Device", << >>)
    IN  Cardinality({j \in 1..Len(devices) :
            \/ server_id = ""
            \/ ~Has(devices[j], "clientIdentifier")
            \/ devices[j].clientIdentifier # server_id})

\* Lines 426-441, 525, 450.
device_set_count(t) ==
    /\ pc[t] = "dev_set"
    /\ LET data == frame[t].data IN
        IF HasContainer(data) /\ ~IsDict(data.MediaContainer)
        THEN Raise(t) /\ UNCHANGED <<reg, frame>>
        ELSE /\ SetMetric("plex_devices_connected_count",
                    IF HasContainer(data)
                    THEN DeviceCount(data.MediaContainer, frame[t].server_info)
                    ELSE 0)
             /\ CallFetch(t, EpActivities, "act_set", frame[t])
    /\ UNCHANGED <<limiterVars, net, log, processVars, observerVars>>

(***************************************************************************)
(* _update_activity_metrics (lines 444-460).                               *)
(***************************************************************************)
\* A variant of activity_set_count that returns early, without the write, when the
\* fetch failed.
activity_set_count_unless_failed(t) ==
    /\ pc[t] = "act_set"
    /\ LET data == frame[t].data
           size == IF HasContainer(data) /\ IsDict(data.MediaContainer)
                   THEN Get(data.MediaContainer, "size", "0") ELSE "0"
       IN  IF HasContainer(data) /\ (~IsDict(data.MediaContainer) \/ ~IntOk(size))
           THEN Raise(t) /\ UNCHANGED <<reg, frame>>
           ELSE /\ IF data = None THEN UNCHANGED reg
                   ELSE SetMetric("plex_activities_active_count", IntOf(size))
                /\ CallFetch(t, EpUpdater, "upd_clear", frame[t])
    /\ UNCHANGED <<limiterVars, net, log, processVars, observerVars>>

\* Lines 451-459, 526, 468.
activity_set_count(t) ==
    /\ pc[t] = "act_set"
    /\ LET data == frame[t].data
           size == IF HasContainer(data) /\ IsDict(data.MediaContainer)
                   THEN Get(data.MediaContainer, "size", "0") ELSE "0"
       IN  IF HasContainer(data) /\ (~IsDict(data.MediaContainer) \/ ~IntOk(size))
           THEN Raise(t) /\ UNCHANGED <<reg, frame>>
           ELSE /\ SetMetric("plex_activities_active_count", IntOf(size))
                /\ CallFetch(t, EpUpdater, "upd_clear", frame[t])
    /\ UNCHANGED <<limiterVars, net, log, processVars, observerVars>>

(***************************************************************************)
(* _update_updater_status (lines 462-486).                                 *)
(***************************************************************************)
\* Lines 476-479: None when int() or the index [0] raises.
UpdaterSeries(container) ==
    LET status == Get(container, "status", "0")
        current_version == Get(container, "version", "unknown")
        release == Get(container, "Release", <<EmptyDict>>)
    IN  IF ~IntOk(status) THEN None
        ELSE IF IntOf(status) # 1
        THEN [current_version |-> current_version, available_version |-> current_version,
              value |-> 0]
        ELSE IF Len(release) = 0 THEN None
        ELSE [current_version |-> current_version,
              available_version |-> Get(release[1], "version", "unknown"),
              value |-> 1]

\* Lines 471-479.
updater_clear(t) ==
    /\ pc[t] = "upd_clear"
    /\ SetMetric("plex_updater_available", {})
    /\ LET data == frame[t].data IN
        IF HasContainer(data)
        THEN IF ~IsDict(data.MediaContainer) \/ UpdaterSeries(data.MediaContainer) = None
             THEN Raise(t) /\ UNCHANGED frame
             ELSE /\ frame' = [frame EXCEPT ![t].labels = UpdaterSeries(data.MediaContainer)]
                  /\ Goto(t, "upd_set")
        ELSE Return(t)
    /\ UNCHANGED <<limiterVars, net, log, processVars, observerVars>>

\* Lines 481, 533.
updater_set(t) ==
    /\ pc[t] = "upd_set"
    /\ SetMetric("plex_updater_available",
                 SetSeries(reg.plex_updater_available, Labels(frame[t].labels),
                           frame[t].labels.value))
    /\ Return(t)
    /\ UNCHANGED <<limiterVars, net, log, processVars, observerVars>>

\* A variant of collect_except that does not count the exception.
collect_except_uncounted(t) ==
    /\ pc[t] = "except"
    /\ Return(t)
    /\ UNCHANGED <<limiterVars, reg, net, log, processVars, observerVars>>

\* Lines 528-533: the exception of a secondary extractor is counted; the
\* extractors after it in the try block are not run.
collect_except(t) ==
    /\ pc[t] = "except"
    /\ IncMetric("plex_exporter_scrape_errors_total")
    /\ Return(t)
    /\ UNCHANGED <<limiterVars, net, log, processVars, observerVars>>

(***************************************************************************)
(* __main__ (lines 549-589) and run_scheduler (lines 537-546).             *)
(***************************************************************************)
\* Line 565.
main_schedule ==
    /\ pc["main"] = "m_schedule"
    /\ job_scheduled' = TRUE
    /\ Goto("main", "m_http")
    /\ UNCHANGED <<limiterVars, reg, frame, net, log, http_up, observerVars>>

\* Lines 568-573: the port is bound, or the process exits.
main_start_http ==
    /\ pc["main"] = "m_http"
    /\ \/ http_up' = TRUE /\ Goto("main", "m_thread")
       \/ http_up' = FALSE /\ Goto("main", "exited")
    /\ UNCHANGED <<limiterVars, reg, frame, net, log, job_scheduled, observerVars>>

\* Lines 577-583: the scheduler thread is started, the main thread sleeps.
main_start_thread ==
    /\ pc["main"] = "m_thread"
    /\ pc["sched"] = "s_off"
    /\ pc' = [pc EXCEPT !["main"] = "m_sleep", !["sched"] = "s_loop"]
    /\ UNCHANGED <<limiterVars, reg, frame, net, log, processVars, observerVars>>

\* Line 545, schedule.run_pending(): the job is run in this thread when it is due.
scheduler_run_pending ==
    /\ pc["sched"] = "s_loop"
    /\ \/ Goto("sched", "s_sleep")
       \/ /\ job_scheduled
          /\ reg.plex_exporter_scrapes_total < MaxRuns
          /\ Goto("sched", "c_start")
    /\ UNCHANGED <<limiterVars, reg, frame, net, log, processVars, observerVars>>

\* Line 546.
scheduler_sleep ==
    /\ pc["sched"] = "s_sleep"
    /\ Goto("sched", "s_loop")
    /\ UNCHANGED <<limiterVars, reg, frame, net, log, processVars, observerVars>>

(***************************************************************************)
(* The program with the limiter off (PLEX_API_RATE_LIMIT unset).           *)
(***************************************************************************)
Step(t) ==
    \/ collect_start(t) /\ UNCHANGED observerVars
    \/ fetch_enter(t)
    \/ fetch_get(t) /\ UNCHANGED observerVars
    \/ fetch_handle(t)
    \/ update_server_up(t)
    \/ update_server_info(t)
    \/ clear_server_info(t)
    \/ collect_down(t)
    \/ session_clear_details(t)
    \/ session_clear_transcode(t)
    \/ session_item(t)
    \/ session_transcode(t)
    \/ session_set_active(t)
    \/ session_set_transcode(t)
    \/ library_clear(t)
    \/ library_item(t)
    \/ library_set_count(t)
    \/ device_set_count(t)
    \/ activity_set_count(t)
    \/ updater_clear(t)
    \/ updater_set(t)
    \/ collect_except(t)

Next ==
    \/ \E t \in Threads : Step(t)
    \/ main_schedule
    \/ main_start_http
    \/ main_start_thread
    \/ scheduler_run_pending
    \/ scheduler_sleep

Spec == Init /\ [][Next]_vars

(***************************************************************************)
(* The same program, with the upstream free to answer a run exactly as it  *)
(* answered the run before it (a repeated run).  prev then holds what the  *)
(* run before did.                                                         *)
(***************************************************************************)
\* Everything published but the two counters (and the duration summary).
View(r) ==
    [k \in DOMAIN r \ {"plex_exporter_scrapes_total", "plex_exporter_scrape_errors_total"}
        |-> r[k]]

repeat_start(t) ==
    /\ collect_start(t)
    /\ \/ prev' = None
       \/ /\ reg.plex_exporter_scrapes_total > 0
          /\ prev' = [log |-> log, reg |-> View(reg)]
    /\ UNCHANGED observed

\* The k-th request of a repeated run gets the answer of the k-th request of the
\* run before.  Outcomes that fetch_plex_api turns into the same result are
\* represented here by one of them.
RepeatKinds == {"timeout", "empty_200", "json_200"}
repeat_get(t) ==
    /\ fetch_get(t)
    /\ net'[t].kind \in RepeatKinds
    /\ prev # None /\ Len(log') <= Len(prev.log)
           => FetchResult(net'[t]).val = prev.log[Len(log')].res
    /\ UNCHANGED observerVars

NextRepeat ==
    \/ \E t \in Threads : repeat_start(t)
    \/ \E t \in Threads : repeat_get(t)
    \/ \E t \in Threads :
        \/ fetch_enter(t)
        \/ fetch_handle(t)
        \/ update_server_up(t)
        \/ update_server_info(t)
        \/ clear_server_info(t)
        \/ collect_down(t)
        \/ session_clear_details(t)
        \/ session_clear_transcode(t)
        \/ session_item(t)
        \/ session_transcode(t)
        \/ session_set_active(t)
        \/ session_set_transcode(t)
        \/ library_clear(t)
        \/ library_item(t)
        \/ library_set_count(t)
        \/ device_set_count(t)
        \/ activity_set_count(t)
        \/ updater_clear(t)
        \/ updater_set(t)
        \/ collect_except(t)
    \/ main_schedule
    \/ main_start_http
    \/ main_start_thread
    \/ scheduler_run_pending
    \/ scheduler_sleep

SpecRepeat == Init /\ [][NextRepeat]_vars

(***************************************************************************)
(* The same program with the metrics endpoint: once start_http_server has  *)
(* returned, a scrape request reads the registry whenever it arrives, no   *)
(* lock of the exporter in its way.  A request is served between two steps *)
(* of the collector.                                                       *)
(***************************************************************************)
scrape_read ==
    /\ http_up
    /\ observed = None
    /\ observed' = View(reg)
    /\ UNCHANGED <<limiterVars, reg, pc, frame, net, log, processVars, prev>>

scrape_respond ==
    /\ observed # None
    /\ observed' = None
    /\ UNCHANGED <<limiterVars, reg, pc, frame, net, log, processVars, prev>>

NextScrape ==
    \/ observed = None /\ Next
    \/ scrape_read
    \/ scrape_respond

SpecScrape == Init /\ [][NextScrape]_vars

(***************************************************************************)
(* The API client alone: one caller issues fetch_plex_api calls, one after *)
(* the other, with idle time of any length between them, while the clock   *)
(* advances.  The limiter is off (0) or on.  One tick is 0.25 s: a budget  *)
(* of 2 requests/second is an interval of 2 ticks.                         *)
(***************************************************************************)
Intervals == {0, 2, 3}
ClientEndpoints == {EpActivities}

InitClient ==
    /\ MIN_REQUEST_INTERVAL \in Intervals
    /\ now = 0
    /\ last_request_time = 0
    /\ reg = EmptyRegistry
    /\ pc = [t \in Threads |-> IF t = "main" THEN "caller" ELSE "s_off"]
    /\ frame = [t \in Threads |-> EmptyFrame]
    /\ net = [t \in Threads |-> NoRequest]
    /\ log = << >>
    /\ job_scheduled = FALSE
    /\ http_up = FALSE
    /\ observed = None
    /\ prev = None

client_call ==
    /\ pc["main"] = "caller"
    /\ Len(log) < MaxCalls
    /\ \E ep \in ClientEndpoints : CallFetch("main", ep, "caller", EmptyFrame)
    /\ UNCHANGED <<limiterVars, reg, net, log, processVars, observerVars>>

tick ==
    /\ now < MaxTime
    /\ now' = now + 1
    /\ UNCHANGED <<MIN_REQUEST_INTERVAL, last_request_time, reg, pc, frame, net, log,
                   processVars, observerVars>>

NextClient ==
    \/ client_call
    \/ tick
    \/ fetch_enter("main")
    \/ rate_clock("main")
    \/ rate_sleep("main")
    \/ rate_stamp("main")
    \/ fetch_get("main") /\ UNCHANGED observerVars
    \/ fetch_handle("main")

SpecClient == InitClient /\ [][NextClient]_vars

(***************************************************************************)
(* One extractor alone, on every response of a bounded set: the state is   *)
(* the one of the initial run when the extractor's fetch has just returned *)
(* (the identity known, the extractors before it answered with {}), and    *)
(* the steps are the extractor's.                                          *)
(***************************************************************************)
IdentityKnown == [machineIdentifier |-> "srv", version |-> "1.40"]
Answered(ep, res) == [ep |-> ep, stamp |-> 0, res |-> res, done |-> TRUE]
\* The state of the initial run when the fetch of ep has returned body, the
\* requests before it being those of `before`.
ExtractorEntered(identity, before, ep, ret, body) ==
    /\ MIN_REQUEST_INTERVAL = 0
    /\ now = 0
    /\ last_request_time = 0
    /\ reg = [EmptyRegistry EXCEPT !.plex_exporter_scrapes_total = 1,
                                   !.plex_server_up = 1,
                                   !.plex_server_info = ServerInfoDict(identity)]
    /\ pc = [t \in Threads |-> IF t = "main" THEN ret ELSE "s_off"]
    /\ frame = [t \in Threads |->
                   IF t = "main"
                   THEN [EmptyFrame EXCEPT !.ep = ep, !.ret = ret, !.data = body,
                                           !.server_info = ServerInfoDict(identity)]
                   ELSE EmptyFrame]
    /\ net = [t \in Threads |-> NoRequest]
    /\ log = <<Answered(EpIdentity, Container(identity))>> \o before
                 \o <<Answered(ep, body)>>
    /\ job_scheduled = FALSE
    /\ http_up = FALSE
    /\ observed = None
    /\ prev = None

\* _update_session_metrics on one session: every pair of duration and viewOffset
\* tokens, every pair of decisions.
DurationTokens == {"1000", "0", "-1000", "abc", "Infinity", "3"}
OffsetTokens == {"250", "1500", "-250", "x", "Infinity", "1"}
Decisions == {"copy", "transcode", "direct play"}
TranscodeInputs ==
    {EmptyDict, [videoDecision |-> "copy"]}
        \cup {[videoDecision |-> v, audioDecision |-> a] : v \in Decisions, a \in Decisions}
SessionInputs ==
    {[sessionKey |-> "9"]}
        \cup {[sessionKey |-> "9", type |-> "clip", title |-> "x", duration |-> d,
               viewOffset |-> v, TranscodeSession |-> ts] :
                 d \in DurationTokens, v \in OffsetTokens, ts \in TranscodeInputs}

InitSession ==
    \E session \in SessionInputs :
        ExtractorEntered(IdentityKnown, << >>, EpSessions, "sess_clear1",
                         Container([size |-> "1", Metadata |-> <<session>>]))

NextSession ==
    \/ session_clear_details("main")
    \/ session_clear_transcode("main")
    \/ session_item("main")
    \/ session_transcode("main")
    \/ session_set_active("main")
    \/ session_set_transcode("main")
    \/ collect_except("main")

SpecSession == InitSession /\ [][NextSession]_vars

\* _update_device_metrics on every list of up to MaxDevices devices, with and
\* without a machineIdentifier in the identity.
MaxDevices == 3
DeviceRecords ==
    {[name |-> "tv"]} \cup {[clientIdentifier |-> c] : c \in {"srv", "phone", "unknown"}}
DeviceLists == UNION {[1..n -> DeviceRecords] : n \in 0..MaxDevices}
DeviceInputs ==
    {None, EmptyDict, Container(None), Container(EmptyDict)}
        \cup {Container([Device |-> l]) : l \in DeviceLists}
IdentityInputs == {IdentityKnown, [version |-> "1.40"]}

InitDevices ==
    \E identity \in IdentityInputs, body \in DeviceInputs :
        ExtractorEntered(identity,
                         <<Answered(EpSessions, EmptyDict), Answered(EpLibraries, EmptyDict)>>,
                         EpDevices, "dev_set", body)

NextDevices ==
    \/ device_set_count("main")
    \/ collect_except("main")

SpecDevices == InitDevices /\ [][NextDevices]_vars

\* get_media_title on every item made of the fields it reads, each present or
\* absent: the item is the one session of a /status/sessions response, and its
\* title is the media_title label of the series that line 321 writes.
TitleFields == {"type", "title", "grandparentTitle", "parentTitle", "parentIndex", "index", "year"}
TitleTypes == {"episode", "movie", "track", "clip"}
IndexTokens == {"1", "3", "12", "100", ""}
YearTokens == {"1995", "", "0"}
FullItems ==
    {[type |-> ty, title |-> "Bar", grandparentTitle |-> "Foo", parentTitle |-> "Baz",
      parentIndex |-> p, index |-> i, year |-> y] :
        ty \in TitleTypes, p \in {"1", "12"}, i \in IndexTokens, y \in YearTokens}
TitleInputs == {[k \in ks |-> item[k]] : ks \in SUBSET TitleFields, item \in FullItems}

InitTitle ==
    \E item \in TitleInputs :
        ExtractorEntered(IdentityKnown, << >>, EpSessions, "sess_clear1",
                         Container([size |-> "1", Metadata |-> <<item>>]))

NextTitle ==
    \/ session_clear_details("main")
    \/ session_clear_transcode("main")
    \/ session_item("main")
    \/ session_set_active("main")
    \/ session_set_transcode("main")

SpecTitle == InitTitle /\ [][NextTitle]_vars

(***************************************************************************)
(* What a run should have published, read off the responses it received.   *)
(***************************************************************************)
Range(seq) == {seq[i] : i \in 1..Len(seq)}
\* No collection is in progress on any thread.
Quiet == \A t \in Threads : ~InRun(t)
Fetched(ep) == \E i \in 1..Len(log) : log[i].ep = ep
\* What the fetch of ep returned in the latest run (None when it was not fetched).
ResOf(ep) == IF Fetched(ep) THEN log[CHOOSE i \in 1..Len(log) : log[i].ep = ep].res ELSE None
ListingEndpoints == {EpSessions, EpLibraries, EpDevices, EpActivities, EpUpdater}

\* The latest run found the server DOWN: /identity failed or had no MediaContainer.
DownRun ==
    /\ Len(log) >= 1
    /\ log[1].ep = EpIdentity /\ log[1].done
    /\ ~IdentityOk(log[1].res)
\* The latest run found the server UP and read its identity.
CollectingRun ==
    /\ Len(log) >= 1
    /\ log[1].ep = EpIdentity /\ log[1].done
    /\ IdentityOk(log[1].res) /\ IsDict(log[1].res.MediaContainer)

Zeroed(r) ==
    /\ r.plex_server_info = EmptyDict
    /\ r.plex_sessions_active = 0
    /\ r.plex_transcode_sessions_active = 0
    /\ r.plex_library_sections_count = 0
    /\ r.plex_devices_connected_count = 0
    /\ r.plex_activities_active_count = 0
    /\ r.plex_session_details = {}
    /\ r.plex_transcode_session_details = {}
    /\ r.plex_library_items_count = {}
    /\ r.plex_updater_available = {}

\* A response whose extractor raises: a MediaContainer that is no dict, a count
\* that is no number, an empty Release list.
SizeRaises(res) ==
    HasContainer(res) /\ (~IsDict(res.MediaContainer)
                          \/ ~IntOk(Get(res.MediaContainer, "size", "0")))
ResponseRaises(ep, res) ==
    IF ep = EpIdentity THEN IdentityOk(res) /\ ~IsDict(res.MediaContainer)
    ELSE IF ep \in {EpSessions, EpLibraries, EpActivities} THEN SizeRaises(res)
    ELSE IF ep = EpDevices THEN HasContainer(res) /\ ~IsDict(res.MediaContainer)
    ELSE IF ep = EpUpdater
    THEN HasContainer(res) /\ (~IsDict(res.MediaContainer)
                               \/ UpdaterSeries(res.MediaContainer) = None)
    ELSE HasContainer(res) /\ (~IsDict(res.MediaContainer)
                               \/ ~IntOk(ItemCountToken(res.MediaContainer)))
NoRaise == \A i \in 1..Len(log) : log[i].done /\ ~ResponseRaises(log[i].ep, log[i].res)

SessionsIn(res) ==
    IF HasContainer(res) THEN Range(Get(res.MediaContainer, "Metadata", << >>)) ELSE {}
ExpectedSessionDetails(res) == {Series(SessionLabels(m), 1) : m \in SessionsIn(res)}
ExpectedTranscodeDetails(res) ==
    {Series(TranscodeLabels(m), 1) : m \in {x \in SessionsIn(res) : HasTranscode(x)}}
ExpectedCount(res) ==
    IF HasContainer(res) /\ IntOk(Get(res.MediaContainer, "size", "0"))
    THEN IntOf(Get(res.MediaContainer, "size", "0")) ELSE 0
CountedSections(res) ==
    IF HasContainer(res)
    THEN {x \in Range(Get(res.MediaContainer, "Directory", << >>)) :
            /\ HasKey(x)
            /\ HasContainer(ResOf(EpSection(x.key)))
            /\ IntOk(ItemCountToken(ResOf(EpSection(x.key)).MediaContainer))}
    ELSE {}
ExpectedItems(res) ==
    {Series([section_title |-> Get(x, "title", "Unknown"),
             section_type |-> Get(x, "type", "Unknown")],
            IntOf(ItemCountToken(ResOf(EpSection(x.key)).MediaContainer))) :
        x \in CountedSections(res)}
ExpectedDevices(res, identity) ==
    IF HasContainer(res)
    THEN DeviceCount(res.MediaContainer, ServerInfoDict(identity.MediaContainer))
    ELSE 0
ExpectedUpdater(res) ==
    IF HasContainer(res) /\ IsDict(res.MediaContainer)
       /\ UpdaterSeries(res.MediaContainer) # None
    THEN {UpdaterSeries(res.MediaContainer)} ELSE {}

(***************************************************************************)
(* Properties.                                                             *)
(***************************************************************************)
\* C1: once a run whose /identity fetch failed or had no MediaContainer has
\* returned, plex_server_up is 0, the info metric is empty, every unlabelled gauge
\* is 0, every labelled family is empty, and /identity is the only request the run
\* issued.
C1_DownRunZeroesEverything ==
    (Quiet /\ DownRun) =>
        /\ reg.plex_server_up = 0
        /\ Zeroed(reg)
        /\ Len(log) = 1
\* A second run found the server DOWN and has returned.
C1_DownRunReturned ==
    /\ Quiet /\ DownRun
    /\ reg.plex_exporter_scrapes_total = 2
    /\ reg.plex_server_up = 0

\* C2: after every run that returned, whatever its outcome, each labelled family
\* holds only series that the responses of that very run produce; nothing of an
\* earlier run survives.
C2_NoStaleSeries ==
    (Quiet /\ pc["main"] # "crashed" /\ pc["sched"] # "dead") =>
        /\ reg.plex_session_details \subseteq ExpectedSessionDetails(ResOf(EpSessions))
        /\ reg.plex_transcode_session_details
               \subseteq ExpectedTranscodeDetails(ResOf(EpSessions))
        /\ reg.plex_library_items_count \subseteq ExpectedItems(ResOf(EpLibraries))
        /\ reg.plex_updater_available \subseteq ExpectedUpdater(ResOf(EpUpdater))

\* The second run returned after its session extractor raised: the library series
\* of the first run are still published, /library/sections was not even requested.
C2_StaleLibrarySeries ==
    /\ Quiet /\ CollectingRun
    /\ reg.plex_exporter_scrapes_total = 2
    /\ ResponseRaises(EpSessions, ResOf(EpSessions))
    /\ ~Fetched(EpLibraries)
    /\ reg.plex_library_items_count # {}

\* C3: in a run that found the server UP, every secondary extractor runs, also
\* when one before it raised: all five listing endpoints are requested.
C3_EveryExtractorRuns ==
    (Quiet /\ CollectingRun) => \A ep \in ListingEndpoints : Fetched(ep)

\* A run returned after its session extractor raised, with no request after
\* /status/sessions.
C3_RunCutShort ==
    /\ Quiet /\ CollectingRun
    /\ ResponseRaises(EpSessions, ResOf(EpSessions))
    /\ Len(log) = 2
    /\ reg.plex_exporter_scrape_errors_total = 1

\* C4: in a run that found the server UP and in which no extractor raised,
\* plex_server_up is 1, all five extractors ran, and each extractor's metrics are
\* exactly what its own response gives: zero and empty when its fetch failed, the
\* values of its response otherwise, whatever the other fetches returned.
C4_FailedFetchZeroesOwnMetricsOnly ==
    (Quiet /\ CollectingRun /\ NoRaise) =>
        /\ reg.plex_server_up = 1
        /\ \A ep \in ListingEndpoints : Fetched(ep)
        /\ reg.plex_sessions_active = ExpectedCount(ResOf(EpSessions))
        /\ reg.plex_session_details = ExpectedSessionDetails(ResOf(EpSessions))
        /\ reg.plex_transcode_session_details = ExpectedTranscodeDetails(ResOf(EpSessions))
        /\ reg.plex_transcode_sessions_active
               = Cardinality({x \in SessionsIn(ResOf(EpSessions)) : HasTranscode(x)})
        /\ reg.plex_library_sections_count = ExpectedCount(ResOf(EpLibraries))
        /\ reg.plex_library_items_count = ExpectedItems(ResOf(EpLibraries))
        /\ reg.plex_devices_connected_count = ExpectedDevices(ResOf(EpDevices), log[1].res)
        /\ reg.plex_activities_active_count = ExpectedCount(ResOf(EpActivities))
        /\ reg.plex_updater_available = ExpectedUpdater(ResOf(EpUpdater))
        /\ ResOf(EpSessions) = None =>
               /\ reg.plex_sessions_active = 0 /\ reg.plex_transcode_sessions_active = 0
               /\ reg.plex_session_details = {} /\ reg.plex_transcode_session_details = {}
        /\ ResOf(EpLibraries) = None =>
               reg.plex_library_sections_count = 0 /\ reg.plex_library_items_count = {}
        /\ ResOf(EpDevices) = None => reg.plex_devices_connected_count = 0
        /\ ResOf(EpActivities) = None => reg.plex_activities_active_count = 0
        /\ ResOf(EpUpdater) = None => reg.plex_updater_available = {}
\* A second run in which only the fetch of /library/sections failed.
C4_OnlyLibrariesFailed ==
    /\ Quiet /\ CollectingRun /\ NoRaise
    /\ reg.plex_exporter_scrapes_total = 2
    /\ ResOf(EpLibraries) = None
    /\ reg.plex_library_sections_count = 0
    /\ reg.plex_sessions_active = 3
    /\ reg.plex_session_details # {}
    /\ reg.plex_devices_connected_count = 1
    /\ reg.plex_activities_active_count = 1
    /\ reg.plex_updater_available # {}
    /\ reg.plex_server_up = 1

C6_SchedulerLoopNeverEnds == pc["sched"] # "dead"

\* The scheduler thread has ended: /identity answered with a MediaContainer that
\* is no dict, and the AttributeError left run_scheduler.
C6_SchedulerThreadEnded ==
    /\ pc["sched"] = "dead"
    /\ ResponseRaises(EpIdentity, log[1].res)
    /\ reg.plex_server_up = 1

\* C7: at most one run is in progress at any time, the second thread exists only
\* once the main thread has left its last run, and so at most one thread is inside
\* fetch_plex_api (the only code that touches last_request_time).
C7_OneRunAtATime ==
    /\ Cardinality({t \in Threads : InRun(t)}) <= 1
    /\ InRun("main") => pc["sched"] = "s_off"
    /\ pc["sched"] # "s_off" => pc["main"] = "m_sleep"
    /\ Cardinality({t \in Threads : pc[t] \in FetchPcs}) <= 1
\* The scheduler thread is inside a fetch of its run; the main thread sleeps.
C7_SchedulerRunInFetch ==
    /\ pc["sched"] \in FetchPcs
    /\ pc["main"] = "m_sleep"
    /\ http_up

\* C8: what a run leaves behind is consistent (plex_server_up = 0 comes with every
\* other metric zero or empty), so a scrape that sees plex_server_up = 0 next to a
\* non-zero plex_sessions_active has read the registry in the middle of a run.
Consistent(r) == r.plex_server_up = 0 => Zeroed(r)
C8_TornReadOnlyDuringRun ==
    /\ Quiet => Consistent(View(reg))
    /\ (observed # None /\ ~Consistent(observed)) => ~Quiet
\* A scrape in the middle of the DOWN branch: plex_server_up is 0 already,
\* plex_sessions_active is not yet reset.
C8_TornRead ==
    /\ observed # None
    /\ observed.plex_server_up = 0
    /\ observed.plex_sessions_active > 0

\* C9: with the limiter on, the stamps that start two consecutive requests are at
\* least MIN_REQUEST_INTERVAL apart, so three requests span at least two intervals
\* (1.0 s at 2 requests/second); while a call waits, no request is in flight (the
\* wait comes before the dispatch).
C9_RequestsSpaced ==
    MIN_REQUEST_INTERVAL > 0 =>
        /\ \A i \in 2..Len(log) : log[i].stamp - log[i-1].stamp >= MIN_REQUEST_INTERVAL
        /\ Len(log) >= 3 => log[3].stamp - log[1].stamp >= 2 * MIN_REQUEST_INTERVAL
        /\ pc["main"] \in {"f_clock", "f_sleep", "f_stamp"} =>
               \A i \in 1..Len(log) : log[i].done
\* Three requests at 2 requests/second, issued back to back: exactly 1.0 s (4 ticks).
C9_ThreeBackToBack ==
    /\ MIN_REQUEST_INTERVAL = 2
    /\ Len(log) = 3
    /\ log[3].done
    /\ log[3].stamp - log[1].stamp = 4

\* C10: when fetch_plex_api returns, a failure of any kind (timeout, connection,
\* SSL, HTTP status, JSON decode, other) has returned None and incremented
\* plex_exporter_scrape_errors_total by exactly one; a success has left it unchanged.
C10_FailureIsNoneAndCountedOnce ==
    [][\A t \in Threads :
          (pc[t] = "f_handle" /\ pc'[t] # "f_handle") =>
              IF net[t].kind \in FailureKinds
              THEN /\ frame'[t].data = None
                   /\ reg'.plex_exporter_scrape_errors_total
                          = reg.plex_exporter_scrape_errors_total + 1
              ELSE /\ frame'[t].data # None
                   /\ reg'.plex_exporter_scrape_errors_total
                          = reg.plex_exporter_scrape_errors_total]_vars
\* A fetch of a listing endpoint has failed and returned.
C10_FailedFetchReturned ==
    /\ \E i \in 1..Len(log) : log[i].done /\ log[i].res = None /\ log[i].ep = EpDevices
    /\ reg.plex_exporter_scrape_errors_total >= 1
    /\ pc["main"] = "dev_set"
    /\ frame["main"].data = None

\* C11: a 2xx response with a non-empty body whose content type is not JSON is a
\* failed call: fetch_plex_api returns None and counts it.
C11_NonJsonIsFailure ==
    [][\A t \in Threads :
          (pc[t] = "f_handle" /\ pc'[t] # "f_handle" /\ net[t].kind = "non_json_200") =>
              /\ frame'[t].data = None
              /\ reg'.plex_exporter_scrape_errors_total
                     = reg.plex_exporter_scrape_errors_total + 1]_vars
\* The /activities request of the first run was answered 200 with a body that is
\* not JSON, and fetch_plex_api is about to return.
C11_NonJsonAnswered ==
    /\ pc["main"] = "f_handle"
    /\ frame["main"].ep = EpActivities
    /\ net["main"].kind = "non_json_200"
    /\ reg.plex_exporter_scrape_errors_total = 0

\* C12: an empty 200 body and a body without MediaContainer are no errors: the
\* fetch returns a dict and counts nothing, the extractor that receives it does not
\* raise and publishes zero counts and an empty family, and the extractor after it
\* runs.
NextEndpoint(ep) ==
    CASE ep = EpSessions -> EpLibraries
      [] ep = EpLibraries -> EpDevices
      [] ep = EpDevices -> EpActivities
      [] OTHER -> EpUpdater
OwnMetricsZero(ep) ==
    CASE ep = EpSessions ->
            /\ reg.plex_sessions_active = 0 /\ reg.plex_transcode_sessions_active = 0
            /\ reg.plex_session_details = {} /\ reg.plex_transcode_session_details = {}
      [] ep = EpLibraries ->
            reg.plex_library_sections_count = 0 /\ reg.plex_library_items_count = {}
      [] ep = EpDevices -> reg.plex_devices_connected_count = 0
      [] ep = EpActivities -> reg.plex_activities_active_count = 0
      [] OTHER -> reg.plex_updater_available = {}
EmptySuccess(res) == res # None /\ ~Has(res, "MediaContainer")
EmptySuccessPublished ==
    (Quiet /\ CollectingRun) =>
        \A ep \in ListingEndpoints :
            (Fetched(ep) /\ EmptySuccess(ResOf(ep))) =>
                /\ OwnMetricsZero(ep)
                /\ ep # EpUpdater => Fetched(NextEndpoint(ep))
C12_EmptySuccessIsNoError ==
    [][/\ \A t \in Threads :
            /\ (/\ pc[t] = "f_handle" /\ pc'[t] # "f_handle"
                /\ \/ net[t].kind = "empty_200"
                   \/ net[t].kind = "json_200" /\ ~Has(net[t].body, "MediaContainer")) =>
                   /\ EmptySuccess(frame'[t].data)
                   /\ reg'.plex_exporter_scrape_errors_total
                          = reg.plex_exporter_scrape_errors_total
            /\ (pc[t] # "except" /\ pc'[t] = "except") => ~EmptySuccess(frame[t].data)
       /\ EmptySuccessPublished']_vars
\* A second run whose /activities fetch returned {}: the gauge is 0, nothing was
\* counted, the updater extractor ran.
C12_ActivitiesEmptySuccess ==
    /\ Quiet /\ CollectingRun
    /\ reg.plex_exporter_scrapes_total = 2
    /\ Fetched(EpActivities) /\ ResOf(EpActivities) = EmptyDict
    /\ reg.plex_activities_active_count = 0
    /\ reg.plex_exporter_scrape_errors_total = 0
    /\ reg.plex_updater_available # {}

\* C13: an exception raised in a secondary extractor is caught: the run returns to
\* its caller and the error counter grows by exactly one for it, next to the one
\* of each failed fetch; only the identity extractor's exception leaves the run.
FailedFetches == Cardinality({i \in 1..Len(log) : log[i].res = None})
ExtractorRaised == ResponseRaises(log[Len(log)].ep, log[Len(log)].res)
FirstRunErrors ==
    (Quiet /\ CollectingRun /\ reg.plex_exporter_scrapes_total = 1) =>
        reg.plex_exporter_scrape_errors_total
            = FailedFetches + (IF ExtractorRaised THEN 1 ELSE 0)
C13_ExtractorExceptionCaughtAndCounted ==
    [][/\ \A t \in Threads :
            /\ (pc[t] = "except" /\ pc'[t] # "except") =>
                   /\ pc'[t] = ReturnSite(t)
                   /\ reg'.plex_exporter_scrape_errors_total
                          = reg.plex_exporter_scrape_errors_total + 1
            /\ (pc[t] # "except" /\ pc'[t] = "except") =>
                   reg'.plex_exporter_scrape_errors_total
                       = reg.plex_exporter_scrape_errors_total
            /\ (pc[t] # UncaughtSite(t) /\ pc'[t] = UncaughtSite(t)) => pc[t] = "id_info"
       /\ FirstRunErrors']_vars
\* The first run returned after a failed /status/sessions fetch and an exception
\* of the library extractor: two errors.
C13_FailedFetchAndException ==
    /\ Quiet /\ CollectingRun
    /\ reg.plex_exporter_scrapes_total = 1
    /\ ResOf(EpSessions) = None
    /\ ResponseRaises(EpLibraries, ResOf(EpLibraries))
    /\ reg.plex_exporter_scrape_errors_total = 2
    /\ pc["main"] = "m_schedule"

\* C14: plex_exporter_scrapes_total grows by exactly one at the start of every run
\* and at no other step, however the run ends.
C14_ScrapeCountedOncePerRun ==
    [][/\ reg'.plex_exporter_scrapes_total
            = reg.plex_exporter_scrapes_total
                + Cardinality({t \in Threads : pc[t] = "c_start" /\ pc'[t] # "c_start"})
       /\ pc'["main"] = "c_start" => reg'.plex_exporter_scrapes_total = 0
       /\ pc'["sched"] = "c_start" => reg'.plex_exporter_scrapes_total >= 1
       /\ (InRun("main")' /\ pc'["main"] # "c_start") => reg'.plex_exporter_scrapes_total = 1
       /\ (InRun("sched")' /\ pc'["sched"] # "c_start") =>
              reg'.plex_exporter_scrapes_total >= 2]_vars
\* The second run is in the except clause: two scrapes counted.
C14_SecondRunRaised ==
    /\ pc["sched"] = "except"
    /\ reg.plex_exporter_scrapes_total = 2

\* C15: when the library extractor has returned, plex_library_sections_count is
\* the size of the listing, the details of every keyed section were requested, a
\* section whose details failed or had no MediaContainer has no series at all, and
\* every other section has its item count.
SectionLabels(x) ==
    [section_title |-> Get(x, "title", "Unknown"), section_type |-> Get(x, "type", "Unknown")]
C15_FailedSectionIsAbsent ==
    (Quiet /\ CollectingRun /\ Fetched(EpDevices) /\ HasContainer(ResOf(EpLibraries))) =>
        LET container == ResOf(EpLibraries).MediaContainer IN
            /\ reg.plex_library_sections_count = IntOf(Get(container, "size", "0"))
            /\ \A x \in Range(Get(container, "Directory", << >>)) :
                   HasKey(x) =>
                       /\ Fetched(EpSection(x.key))
                       /\ LET details == ResOf(EpSection(x.key)) IN
                              IF HasContainer(details)
                              THEN Series(SectionLabels(x),
                                          IntOf(ItemCountToken(details.MediaContainer)))
                                       \in reg.plex_library_items_count
                              ELSE \A s \in reg.plex_library_items_count :
                                       Labels(s) # SectionLabels(x)
\* The details of the first section failed, those of the second came: one series.
C15_OneSectionFailed ==
    /\ Quiet /\ CollectingRun /\ Fetched(EpDevices)
    /\ Fetched(EpSection("1")) /\ ResOf(EpSection("1")) = None
    /\ HasContainer(ResOf(EpSection("2")))
    /\ reg.plex_library_items_count = {Series(SectionLabels(SectionShows), 2)}
    /\ reg.plex_library_sections_count = 3

\* The session the session extractor was given (SpecSession).
SessionGiven == log[2].res.MediaContainer.Metadata[1]
SessionEnumerated == pc["main"] \notin {"sess_clear1", "sess_clear2", "sess_item"}

\* C16: every published session series has a progress_percent between 0 and 100
\* (0 and 10000 hundredths) and non-negative duration_ms and view_offset_ms.
C16_ProgressWithinBounds ==
    \A s \in reg.plex_session_details :
        /\ s.progress_percent >= 0 /\ s.progress_percent <= 10000
        /\ s.duration_ms >= 0
        /\ s.view_offset_ms >= 0
\* duration 1000 and viewOffset 1500 are published with a progress of 150.0.
C16_ProgressAbove100 ==
    \E s \in reg.plex_session_details :
        s.duration_ms = 1000 /\ s.view_offset_ms = 1500 /\ s.progress_percent = 15000

\* C17: every enumerated session is published with a progress_percent that is
\* 100 * viewOffset / duration to the nearest hundredth when both convert to
\* integers and duration > 0, and 0 when duration <= 0 or a conversion fails.
Abs(x) == IF x < 0 THEN 0 - x ELSE x
ProgressAsClaimed(p, duration_ms, view_offset_ms) ==
    IF IntOk(duration_ms) /\ IntOk(view_offset_ms) /\ IntOf(duration_ms) > 0
    THEN 2 * Abs(p * IntOf(duration_ms) - 10000 * IntOf(view_offset_ms)) <= IntOf(duration_ms)
    ELSE p = 0
C17_ProgressFormula ==
    SessionEnumerated =>
        \E s \in reg.plex_session_details :
            ProgressAsClaimed(s.progress_percent, Get(SessionGiven, "duration", "0"),
                              Get(SessionGiven, "viewOffset", "0"))
\* A session whose duration is Infinity: the extractor is in the except clause of
\* collect_plex_metrics and the session has no series.
C17_InfiniteDurationRaised ==
    /\ pc["main"] = "except"
    /\ Get(SessionGiven, "duration", "0") = "Infinity"
    /\ Get(SessionGiven, "viewOffset", "0") = "250"
    /\ reg.plex_session_details = {}

\* C18: a session with a TranscodeSession sub-object is published with
\* transcode_decision "Direct Stream" when both decisions are "copy", "Transcode"
\* when one of them is "transcode", "Unknown" otherwise, and never "Direct Play".
C18_TranscodeDecisionTable ==
    /\ \A s \in reg.plex_transcode_session_details :
           /\ s.transcode_decision # "Direct Play"
           /\ s.transcode_decision =
                  (IF s.video_decision = "copy" /\ s.audio_decision = "copy"
                   THEN "Direct Stream"
                   ELSE IF "transcode" \in {s.video_decision, s.audio_decision}
                   THEN "Transcode" ELSE "Unknown")
    /\ (pc["main"] \in {"sess_set1", "sess_set2", "f_enter"} /\ HasTranscode(SessionGiven)) =>
           \E s \in reg.plex_transcode_session_details :
               /\ s.video_decision = Get(SessionGiven.TranscodeSession, "videoDecision", "unknown")
               /\ s.audio_decision = Get(SessionGiven.TranscodeSession, "audioDecision", "unknown")
\* Decisions "direct play" and "copy" are published as "Unknown".
C18_UnknownDecisionPublished ==
    \E s \in reg.plex_transcode_session_details :
        /\ s.video_decision = "direct play" /\ s.audio_decision = "copy"
        /\ s.transcode_decision = "Unknown"

\* C19: after a run in which /updater/status answered with a MediaContainer, the
\* updater family holds exactly one series: its value is 1 exactly when status is
\* 1, current_version is the reported version or "unknown", and when status is
\* not 1 available_version equals current_version, whatever the Release field is.
UpdaterAnswered ==
    /\ Quiet /\ CollectingRun /\ Fetched(EpUpdater)
    /\ HasContainer(ResOf(EpUpdater)) /\ IsDict(ResOf(EpUpdater).MediaContainer)
    /\ IntOk(Get(ResOf(EpUpdater).MediaContainer, "status", "0"))
C19_UpdaterHoldsOneSeries ==
    UpdaterAnswered =>
        LET container == ResOf(EpUpdater).MediaContainer
            status == IntOf(Get(container, "status", "0"))
        IN  \E s \in reg.plex_updater_available :
                /\ reg.plex_updater_available = {s}
                /\ (s.value = 1) <=> (status = 1)
                /\ s.current_version = Get(container, "version", "unknown")
                /\ status # 1 => s.available_version = s.current_version
\* /updater/status reported an update with an empty Release list; the run has
\* returned and the family is empty.
C19_EmptyReleaseList ==
    /\ UpdaterAnswered
    /\ ResOf(EpUpdater) = Container([status |-> "1", version |-> "1.40", Release |-> << >>])
    /\ reg.plex_updater_available = {}

\* C20: the devices count is the number of Device records whose clientIdentifier
\* differs from the machineIdentifier that /identity gave in the same run, and
\* every record is counted when /identity gave no machineIdentifier.
DevicesCounted == pc["main"] \notin {"dev_set", "except"}
DevicesGiven ==
    IF HasContainer(ResOf(EpDevices))
    THEN Get(ResOf(EpDevices).MediaContainer, "Device", << >>) ELSE << >>
C20_DevicesOtherThanServer ==
    DevicesCounted =>
        LET identity == log[1].res.MediaContainer
            devices == DevicesGiven
        IN  reg.plex_devices_connected_count =
                Cardinality({j \in 1..Len(devices) :
                    \/ ~Has(identity, "machineIdentifier")
                    \/ ~Has(devices[j], "clientIdentifier")
                    \/ devices[j].clientIdentifier # identity.machineIdentifier})
\* /identity gave no machineIdentifier and the only device, whose clientIdentifier
\* is "unknown", was not counted.
C20_UnknownDeviceDropped ==
    /\ DevicesCounted
    /\ ~Has(log[1].res.MediaContainer, "machineIdentifier")
    /\ DevicesGiven = <<[clientIdentifier |-> "unknown"]>>
    /\ reg.plex_devices_connected_count = 0

\* C21: once the sessions extractor has ended on a container with an integer
\* size, plex_sessions_active is that size, whatever the Metadata records are, and
\* plex_transcode_sessions_active is the number of Metadata records that carry a
\* TranscodeSession sub-object.
SessionsContainer == log[2].res.MediaContainer
SessionExtractorEnded == pc["main"] \in {"f_enter", "m_schedule"}
C21_ActiveIsSizeTranscodeIsCounted ==
    (SessionExtractorEnded /\ IntOk(Get(SessionsContainer, "size", "0"))) =>
        LET metadata == Get(SessionsContainer, "Metadata", << >>) IN
            /\ reg.plex_sessions_active = IntOf(Get(SessionsContainer, "size", "0"))
            /\ reg.plex_transcode_sessions_active =
                   Cardinality({i \in 1..Len(metadata) : Has(metadata[i], "TranscodeSession")})
\* The extractor has ended on size 1 and one session that is being transcoded, whose
\* viewOffset is Infinity: both gauges are still 0.
C21_GaugesNotSet ==
    /\ SessionExtractorEnded
    /\ SessionsContainer.size = "1"
    /\ Get(SessionGiven, "duration", "0") = "1000"
    /\ Get(SessionGiven, "viewOffset", "0") = "Infinity"
    /\ HasTranscode(SessionGiven)
    /\ reg.plex_sessions_active = 0
    /\ reg.plex_transcode_sessions_active = 0

\* C22: the media_title of an episode is "{show} - S{season}E{episode} - {title}"
\* with season and episode filled with leading zeros to width 2 and "?" (hence
\* "0?") for a missing index; of a movie "title (year)", and only when the year
\* is not empty, else the title; of a track "artist - album - title"; of any other
\* type the title.
LeftZeros(s) == IF Len(s) = 0 THEN "00" ELSE IF Len(s) = 1 THEN "0" \o s ELSE s
TitleAsClaimed(item) ==
    LET field(k) == IF k \in DOMAIN item THEN item[k] ELSE ""
        number(k) == IF k \in DOMAIN item THEN LeftZeros(item[k]) ELSE "0?"
        type == IF "type" \in DOMAIN item THEN item.type ELSE "unknown"
    IN  IF type = "episode"
        THEN field("grandparentTitle") \o " - S" \o number("parentIndex") \o "E"
                 \o number("index") \o " - " \o field("title")
        ELSE IF type = "movie"
        THEN IF field("year") \in {"", "0"} THEN field("title")
             ELSE field("title") \o " (" \o field("year") \o ")"
        ELSE IF type = "track"
        THEN field("grandparentTitle") \o " - " \o field("parentTitle") \o " - " \o field("title")
        ELSE field("title")
C22_MediaTitleFormat ==
    /\ SessionEnumerated =>
           \E s \in reg.plex_session_details :
               /\ s.media_title = TitleAsClaimed(SessionGiven)
               /\ (Get(SessionGiven, "type", "") = "movie" /\ s.media_title # Get(SessionGiven, "title", ""))
                      => Get(SessionGiven, "year", "") # ""
    /\ \A s \in reg.plex_session_details :
           /\ (s.type = "episode" /\ SessionGiven =
                  [type |-> "episode", grandparentTitle |-> "Foo", parentIndex |-> "1",
                   index |-> "3", title |-> "Bar"]) => s.media_title = "Foo - S01E03 - Bar"
           /\ (s.type = "episode" /\ SessionGiven =
                  [type |-> "episode", grandparentTitle |-> "Foo", index |-> "3",
                   title |-> "Bar"]) => s.media_title = "Foo - S0?E03 - Bar"
\* An episode without parentIndex was published as "Foo - S0?E03 - Bar".
C22_PlaceholderZeroFilled ==
    \E s \in reg.plex_session_details :
        /\ ~Has(SessionGiven, "parentIndex") /\ Get(SessionGiven, "type", "") = "episode"
        /\ s.media_title = "Foo - S0?E03 - Bar"

\* C23: the requests of a run are, in this order, /identity, /status/sessions,
\* /library/sections, the details of the sections, /devices, /activities and
\* /updater/status, each once: at every moment the requests made so far are a
\* beginning of that sequence, a run in which identity succeeded and no extractor
\* raised has made all of them, and the devices extractor holds the server info
\* that /identity gave in this run.
IsPrefix(a, b) == Len(a) <= Len(b) /\ \A i \in 1..Len(a) : a[i] = b[i]
Requested == [i \in 1..Len(log) |-> log[i].ep]
SectionFetches(res) ==
    IF HasContainer(res) /\ IsDict(res.MediaContainer)
    THEN LET keyed == SelectSeq(Get(res.MediaContainer, "Directory", << >>),
                                LAMBDA section : Has(section, "key"))
         IN  [i \in 1..Len(keyed) |-> EpSection(keyed[i].key)]
    ELSE << >>
FetchOrder ==
    <<EpIdentity, EpSessions, EpLibraries>> \o SectionFetches(ResOf(EpLibraries))
        \o <<EpDevices, EpActivities, EpUpdater>>
C23_FetchOrder ==
    /\ IsPrefix(Requested, FetchOrder)
    /\ (Quiet /\ CollectingRun /\ NoRaise) => Requested = FetchOrder
    /\ \A t \in Threads :
           (pc[t] = "dev_set" \/ (pc[t] \in FetchPcs /\ frame[t].ep = EpDevices)) =>
               /\ log[1].ep = EpIdentity /\ log[1].done /\ IdentityOk(log[1].res)
               /\ frame[t].server_info = ServerInfoDict(log[1].res.MediaContainer)
\* A run on a listing with two keyed sections has returned after its eight requests.
C23_AllEightRequested ==
    /\ Quiet /\ CollectingRun /\ NoRaise
    /\ Len(log) = 8
    /\ log[4].ep = EpSection("1") /\ log[5].ep = EpSection("2") /\ log[6].ep = EpDevices

\* C24: a run never makes more requests than 6 plus the number of sections with a
\* key; once it has returned it has made 1 request when the server was DOWN and,
\* when identity succeeded and no extractor raised, exactly 6 plus the number of
\* keyed sections: one details request for each section with a key and none for a
\* section without, which has no item-count series either.
ListedSections ==
    IF HasContainer(ResOf(EpLibraries)) /\ IsDict(ResOf(EpLibraries).MediaContainer)
    THEN Get(ResOf(EpLibraries).MediaContainer, "Directory", << >>) ELSE << >>
KeyedIndices == {j \in 1..Len(ListedSections) : Has(ListedSections[j], "key")}
DetailFetches(key) == {i \in 1..Len(log) : log[i].ep = EpSection(key)}
C24_BoundedFetches ==
    /\ Len(log) <= 6 + Cardinality(KeyedIndices)
    /\ (Quiet /\ DownRun) => Len(log) = 1
    /\ (Quiet /\ CollectingRun /\ NoRaise) =>
           /\ Len(log) = 6 + Cardinality(KeyedIndices)
           /\ \A j \in KeyedIndices :
                  Cardinality(DetailFetches(ListedSections[j].key)) = 1
           /\ Cardinality({i \in 1..Len(log) : log[i].ep \notin ListingEndpoints \cup {EpIdentity}})
                  = Cardinality(KeyedIndices)
           /\ \A j \in 1..Len(ListedSections) \ KeyedIndices :
                  \A x \in reg.plex_library_items_count :
                      x.section_title # Get(ListedSections[j], "title", "Unknown")
\* A run on the listing of three sections, one of them without a key, has returned
\* after 6 + 2 requests, and the two keyed sections have their series.
C24_TwoOfThreeSectionsFetched ==
    /\ Quiet /\ CollectingRun /\ NoRaise
    /\ Len(ListedSections) = 3 /\ Cardinality(KeyedIndices) = 2
    /\ Len(log) = 8
    /\ Cardinality(reg.plex_library_items_count) = 2

\* C25: in every run, whatever the runs before it did, plex_server_up becomes 1
\* and the run goes on to the extractors exactly when this run's /identity response
\* has a MediaContainer; a run that found the identity and in which nothing raised
\* returns with plex_server_up 1 and all five listing endpoints requested, and a
\* run that found the server DOWN returns with plex_server_up 0 and everything the
\* run before had published reset.
C25_DownIsNotSticky ==
    [][\A t \in Threads :
         /\ (pc[t] = "id_up" /\ pc'[t] # "id_up") =>
                IF IdentityOk(frame[t].data)
                THEN reg'.plex_server_up = 1 /\ pc'[t] = "id_info"
                ELSE reg'.plex_server_up = 0 /\ pc'[t] = "id_no_info"
         /\ (InRun(t) /\ ~InRun(t)') =>
                /\ DownRun' => reg'.plex_server_up = 0 /\ Zeroed(reg')
                /\ (CollectingRun' /\ NoRaise') =>
                       /\ reg'.plex_server_up = 1
                       /\ \A ep \in ListingEndpoints : Fetched(ep)'
      ]_vars
\* The second run has just found a valid identity and set plex_server_up to 1; the
\* info metric is still empty, as the DOWN run before it left it.
C25_UpAfterDown ==
    /\ pc["sched"] = "id_info"
    /\ reg.plex_exporter_scrapes_total = 2
    /\ reg.plex_server_up = 1
    /\ reg.plex_server_info = EmptyDict

\* C26: with MIN_REQUEST_INTERVAL = 0 a call goes from its entry straight to the
\* dispatch and last_request_time never changes; with the limiter on,
\* last_request_time changes only at line 142, every dispatch is preceded by that
\* one write, the value written is the clock after the wait (at least an interval
\* after the previous value), and last_request_time never decreases.
LimiterPcs == {"f_clock", "f_sleep", "f_stamp"}
C26_StampOncePerFetch ==
    [][/\ last_request_time' >= last_request_time
       /\ MIN_REQUEST_INTERVAL = 0 =>
              /\ last_request_time' = last_request_time
              /\ pc'["main"] \notin LimiterPcs
              /\ (pc["main"] = "f_enter" /\ pc'["main"] # "f_enter") => pc'["main"] = "f_get"
       /\ MIN_REQUEST_INTERVAL > 0 =>
              /\ last_request_time' # last_request_time => pc["main"] = "f_stamp"
              /\ (pc["main"] = "f_stamp" /\ pc'["main"] # "f_stamp") =>
                     /\ pc'["main"] = "f_get"
                     /\ last_request_time' = now
                     /\ last_request_time' - last_request_time >= MIN_REQUEST_INTERVAL
              /\ (pc'["main"] = "f_get" /\ pc["main"] # "f_get") => pc["main"] = "f_stamp"
      ]_vars
\* With an interval of 2 ticks, the second call has waited and written its stamp,
\* 2 ticks after the stamp of the first request.
C26_SecondStampAfterWait ==
    /\ MIN_REQUEST_INTERVAL = 2
    /\ pc["main"] = "f_get"
    /\ Len(log) = 1 /\ log[1].done
    /\ last_request_time = log[1].stamp + 2
    /\ frame["main"].current_time < last_request_time

====
